---- MODULE Spec2Model ----
(***************************************************************************)
(* Model of the IVC102 daemon (src/ivc102_daemon.py): the serial protocol  *)
(* object IVC102_Tty (command queue, transmit pacer, line framer, record   *)
(* parser, sample buffer, start/stop flags) and the websocket dispatcher   *)
(* handle_ws with its four command handlers.                               *)
(*                                                                         *)
(* Bytes are their ASCII codes; a bytes/bytearray/str value is a sequence  *)
(* of codes.  Every coroutine step is the code between two awaits.         *)
(***************************************************************************)
EXTENDS Integers, Sequences, FiniteSets, TLC

VARIABLES
    ivc102_proto,   \* the IVC102_Tty object; .transport is what was written to the serial port
    tx_task,        \* tx_timer_task's position: pc, and its locals b, t and the loop index i
    ws,             \* per client: the state of its handle_ws loop
    ws_last,        \* the last thing handle_ws did to a client: <<c, "send", frame>>,
                    \* <<c, "close", code>> or <<c, "exception">>; <<>> at first
    exc,            \* outcome of the last direct enqueue_command call
    budget,         \* how many more inputs of each kind the environment offers
    hist            \* history: what the device sent, what the framer produced, scenario phase

vars == <<ivc102_proto, tx_task, ws, ws_last, exc, budget, hist>>

-----------------------------------------------------------------------------
(* Bytes *)

CR == 13
LF == 10
CTRL_C == 3
CTRL_D == 4

\* bytes.split() separators: space, \t, \n, \v, \f, \r
Whitespace == {32, 9, 10, 11, 12, 13}
Digits == 48..57

Start_Measurement == <<83, 116, 97, 114, 116, 32, 77, 101, 97, 115, 117, 114, 101, 109, 101, 110, 116>>
Stop_Measurement == <<83, 116, 111, 112, 32, 77, 101, 97, 115, 117, 114, 101, 109, 101, 110, 116>>

\* str.find(pat) != -1
Contains(s, pat) ==
    \E i \in 0..(Len(s) - Len(pat)) : \A k \in 1..Len(pat) : s[i + k] = pat[k]

\* bytearray.find(b): the 1-based index of the first byte b of buf, 0 when there is none
Find(buf, b) ==
    LET at == {i \in 1..Len(buf) : buf[i] = b}
    IN  IF at = {} THEN 0 ELSE CHOOSE i \in at : \A j \in at : i <= j

-----------------------------------------------------------------------------
(* Record Parser *)

\* The first index >= i of s that is (sep = TRUE) or is not (sep = FALSE) a
\* separator, Len(s) + 1 when there is none.
Scan(s, i, sep) ==
    LET at == {k \in i..Len(s) : (s[k] \in Whitespace) = sep}
    IN  IF at = {} THEN Len(s) + 1 ELSE CHOOSE k \in at : \A j \in at : k <= j

\* line.split(): the maximal runs of non-whitespace bytes, in order
RECURSIVE SplitFrom(_, _)
SplitFrom(s, i) ==
    LET b == Scan(s, i, FALSE)
        e == Scan(s, b, TRUE)
    IN  IF b > Len(s) THEN <<>>
        ELSE <<SubSeq(s, b, e - 1)>> \o SplitFrom(s, e)

Split(line) == SplitFrom(line, 1)

\* int(tok) succeeds: an optional sign and then decimal digits
\* (tokens hold no whitespace; the byte alphabets used hold no underscore)
IsInt(tok) ==
    LET body == IF Len(tok) > 0 /\ tok[1] \in {43, 45} THEN Tail(tok) ELSE tok
    IN  Len(body) > 0 /\ \A k \in 1..Len(body) : body[k] \in Digits

RECURSIVE DecValue(_)
DecValue(ds) ==
    IF ds = <<>> THEN 0
    ELSE 10 * DecValue(SubSeq(ds, 1, Len(ds) - 1)) + (ds[Len(ds)] - 48)

IntOf(tok) ==
    IF tok[1] = 45 THEN 0 - DecValue(Tail(tok))
    ELSE IF tok[1] = 43 THEN DecValue(Tail(tok))
    ELSE DecValue(tok)

\* status_to_int = {b'R': 0, b'H': 1, b'I': 2}
status_to_int == (<<82>> :> 0) @@ (<<72>> :> 1) @@ (<<73>> :> 2)

\* try_parse_line(line): raised is TRUE when any of arr[k], int(), or the
\* dictionary lookup raises; otherwise rec is the 5-tuple.  Fields after
\* arr[4] are never looked at.
try_parse_line(line) ==
    LET arr == Split(line)
        ok  == /\ Len(arr) >= 5
               /\ IsInt(arr[1])
               /\ arr[2] \in DOMAIN status_to_int
               /\ IsInt(arr[3])
               /\ arr[4] \in DOMAIN status_to_int
               /\ IsInt(arr[5])
    IN  IF ok
        THEN [raised |-> FALSE,
              rec |-> <<IntOf(arr[1]), status_to_int[arr[2]], IntOf(arr[3]),
                        status_to_int[arr[4]], IntOf(arr[5])>>]
        ELSE [raised |-> TRUE, rec |-> <<>>]

-----------------------------------------------------------------------------
(* IVC102_Tty *)

RX_DATA_BUF_MAX == 512
RECVBUF_MAX == 512

\* A command entry of txqueue: a plain bytes/str value is [b |-> bytes], a
\* (bytes, delay) tuple is [b |-> bytes, t |-> milliseconds].
Cmd(b) == [b |-> b]
CmdT(b, t) == [b |-> b, t |-> t]

\* the script connection_made puts on the queue
InitCommands == <<
    CmdT(<<115, 121, 115, 95, 114, 115, 116, 10>>, 3000),          \* ('sys_rst\n', 3)
    Cmd(<<115, 121, 115, 95, 105, 110, 102, 111, 10>>),           \* 'sys_info\n'
    Cmd(<<105, 118, 99, 95, 99, 115, 114, 101, 102, 10>>),        \* 'ivc_csref\n'
    Cmd(<<48, 10>>),                                              \* '0\n'
    Cmd(<<105, 118, 99, 95, 99, 115, 103, 110, 100, 10>>),        \* 'ivc_csgnd\n'
    Cmd(<<49, 10>>),                                              \* '1\n'
    Cmd(<<97, 100, 99, 95, 116, 114, 103, 118, 10>>),             \* 'adc_trgv\n'
    Cmd(<<52, 46, 48, 48, 10>>),                                  \* '4.00\n'
    Cmd(<<105, 118, 99, 95, 100, 116, 114, 105, 103, 10>>),       \* 'ivc_dtrig\n'
    Cmd(<<116, 10>>),                                             \* 't\n'
    Cmd(<<105, 118, 99, 95, 100, 116, 114, 105, 103, 10>>),       \* 'ivc_dtrig\n'
    Cmd(<<99, 10>>),                                              \* 'c\n'
    Cmd(<<105, 118, 99, 95, 101, 116, 114, 105, 103, 10>>),       \* 'ivc_etrig\n'
    Cmd(<<118, 10>>),                                             \* 'v\n'
    Cmd(<<105, 118, 99, 95, 110, 115, 101, 113, 10>>),            \* 'ivc_nseq\n'
    Cmd(<<48, 52, 32, 48, 48, 32, 48, 50, 32, 48, 51, 32, 48, 51, 32, 48, 51, 32, 48, 51, 32,
          48, 52, 32, 48, 51, 32, 48, 50, 32, 48, 55, 32, 48, 49, 32, 48, 50, 10>>)
                                     \* '04 00 02 03 03 03 03 04 03 02 07 01 02\n'
    >>

\* the object after __init__ and connection_made(transport)
connection_made ==
    [transport   |-> <<>>,
     recvbuf     |-> <<>>,
     expect_data |-> FALSE,
     sent_stop   |-> FALSE,
     sent_start  |-> FALSE,
     txqueue     |-> InitCommands,
     rx_data_buf |-> <<>>,
     good_rx     |-> 0,
     bad_rx      |-> 0,
     drop_rx     |-> 0]

\* transport.write(data)
Write(self, data) == [self EXCEPT !.transport = @ \o data]

stop(self) ==
    [Write(self, <<CTRL_D>>) EXCEPT !.sent_stop = TRUE]

\* start() without its check of the queue
start_NoQueueCheck(self) ==
    [raised |-> FALSE,
     self |-> [Write(self, <<CTRL_C>>) EXCEPT !.sent_start = TRUE]]

\* start(): raised is TRUE for the RuntimeError, which leaves the object alone
start(self) ==
    IF Len(self.txqueue) > 0
    THEN [raised |-> TRUE, self |-> self]
    ELSE [raised |-> FALSE,
          self |-> [Write(self, <<CTRL_C>>) EXCEPT !.sent_start = TRUE]]

\* enqueue_command ignoring the commands instead of raising
enqueue_command_Silent(self, commands) ==
    IF self.expect_data \/ self.sent_start
    THEN [raised |-> FALSE, self |-> self]
    ELSE [raised |-> FALSE, self |-> [self EXCEPT !.txqueue = @ \o commands]]

\* enqueue_command checking expect_data only
enqueue_command_OnlyMeasuring(self, commands) ==
    IF self.expect_data
    THEN [raised |-> TRUE, self |-> self]
    ELSE [raised |-> FALSE, self |-> [self EXCEPT !.txqueue = @ \o commands]]

enqueue_command(self, commands) ==
    IF self.expect_data \/ self.sent_start
    THEN [raised |-> TRUE, self |-> self]
    ELSE [raised |-> FALSE, self |-> [self EXCEPT !.txqueue = @ \o commands]]

\* lines 140-143: one trailing and then one leading line feed are removed
StripLF(line) ==
    LET a == IF Len(line) > 0 /\ line[Len(line)] = LF
             THEN SubSeq(line, 1, Len(line) - 1) ELSE line
    IN  IF Len(a) > 0 /\ a[1] = LF THEN Tail(a) ELSE a

\* repr(bytearray): printable ASCII is kept, any other byte becomes an escape
\* that starts with a backslash
Repr(line) ==
    LET esc(b) == IF b >= 32 /\ b < 127 /\ b # 92 /\ b # 39 THEN <<b>> ELSE <<92, 120, 63, 63>>
        F[k \in 0..Len(line)] == IF k = 0 THEN <<>> ELSE F[k - 1] \o esc(line[k])
    IN  <<98, 121, 116, 101, 97, 114, 114, 97, 121, 40, 98, 39>> \o F[Len(line)] \o <<39, 41>>

\* lines 145-148: line.decode('ascii'), or repr(line) on UnicodeDecodeError
Decode(line) ==
    IF \A k \in 1..Len(line) : line[k] < 128 THEN line ELSE Repr(line)

\* lines 154-156
StopEcho(self, line_str) ==
    IF self.sent_stop /\ Contains(line_str, Stop_Measurement)
    THEN [self EXCEPT !.sent_stop = FALSE, !.expect_data = FALSE]
    ELSE self

\* the append dropping the newest records over the cap
AppendRecord_DropNewest(self, rec) ==
    LET buf == Append(self.rx_data_buf, rec)
        n   == Len(buf)
    IN  IF n > RX_DATA_BUF_MAX
        THEN [self EXCEPT !.good_rx = @ + 1,
                          !.drop_rx = @ + (n - RX_DATA_BUF_MAX),
                          !.rx_data_buf = SubSeq(buf, 1, RX_DATA_BUF_MAX)]
        ELSE [self EXCEPT !.good_rx = @ + 1, !.rx_data_buf = buf]

\* lines 161-168: count and append the record, then drop the oldest over the cap
AppendRecord(self, rec) ==
    LET buf == Append(self.rx_data_buf, rec)
        n   == Len(buf)
    IN  IF n > RX_DATA_BUF_MAX
        THEN [self EXCEPT !.good_rx = @ + 1,
                          !.drop_rx = @ + (n - RX_DATA_BUF_MAX),
                          !.rx_data_buf = SubSeq(buf, n - RX_DATA_BUF_MAX + 1, n)]
        ELSE [self EXCEPT !.good_rx = @ + 1, !.rx_data_buf = buf]

\* no stop forced by unexpected data
ForceStop_Never(self) == self

\* a stop forced by every unexpected record, pending stop or not
ForceStop_Unlatched(self) ==
    IF ~self.expect_data THEN stop(self) ELSE self

\* lines 170-172
ForceStop(self) ==
    IF ~self.expect_data /\ ~self.sent_stop THEN stop(self) ELSE self

\* records stored only while expect_data is set
ParseAndStore_OnlyMeasuring(self, line, line_str) ==
    LET p == try_parse_line(line)
    IN  IF ~p.raised
        THEN IF self.expect_data THEN AppendRecord(self, p.rec) ELSE ForceStop(self)
        ELSE IF self.expect_data THEN [self EXCEPT !.bad_rx = @ + 1]
        ELSE self

\* lines 158-177: the try block and its except clause
ParseAndStore(self, line, line_str) ==
    LET p == try_parse_line(line)
    IN  IF ~p.raised THEN ForceStop(AppendRecord(self, p.rec))
        ELSE IF self.expect_data THEN [self EXCEPT !.bad_rx = @ + 1]
        ELSE self

\* the start echo keeping the buffer
StartEcho_NoClear(self, line_str) ==
    IF self.sent_start /\ Contains(line_str, Start_Measurement)
    THEN [self EXCEPT !.expect_data = TRUE, !.sent_start = FALSE]
    ELSE self

\* the start echo clearing the counters with the buffer
StartEcho_ResetCounters(self, line_str) ==
    IF self.sent_start /\ Contains(line_str, Start_Measurement)
    THEN [self EXCEPT !.expect_data = TRUE, !.sent_start = FALSE, !.rx_data_buf = <<>>,
                      !.good_rx = 0, !.bad_rx = 0, !.drop_rx = 0]
    ELSE self

\* the start echo taken whether a start is pending or not
StartEcho_Unsolicited(self, line_str) ==
    IF Contains(line_str, Start_Measurement)
    THEN [self EXCEPT !.expect_data = TRUE, !.sent_start = FALSE, !.rx_data_buf = <<>>]
    ELSE self

\* lines 179-182
StartEcho(self, line_str) ==
    IF self.sent_start /\ Contains(line_str, Start_Measurement)
    THEN [self EXCEPT !.expect_data = TRUE, !.sent_start = FALSE, !.rx_data_buf = <<>>]
    ELSE self

\* lines 145-182: everything done with one framed line
ProcessLine(self, line) ==
    LET line_str == Decode(line)
    IN  StartEcho(ParseAndStore(StopEcho(self, line_str), line, line_str), line_str)

\* the accumulator emptied at the end of every call
TruncateRecvbuf_Clear(buf) == <<>>

\* lines 186-188
TruncateRecvbuf(buf) ==
    IF Len(buf) > RECVBUF_MAX
    THEN SubSeq(buf, Len(buf) - RECVBUF_MAX + 1, Len(buf))
    ELSE buf

\* lines 132-182, the while loop: [self, lines], lines being the logical
\* lines framed in this call, in order
RECURSIVE RxLoop(_, _)
RxLoop(self, lines) ==
    LET ix_cr == Find(self.recvbuf, CR)
    IN  IF ix_cr = 0 THEN [self |-> self, lines |-> lines]
        ELSE LET line == StripLF(SubSeq(self.recvbuf, 1, ix_cr - 1))
                 rest == SubSeq(self.recvbuf, ix_cr + 1, Len(self.recvbuf))
             IN  RxLoop(ProcessLine([self EXCEPT !.recvbuf = rest], line),
                        Append(lines, line))

\* data_received(data): [self, lines]
data_received(self, data) ==
    LET r == RxLoop([self EXCEPT !.recvbuf = @ \o data], <<>>)
    IN  [self  |-> [r.self EXCEPT !.recvbuf = TruncateRecvbuf(@)],
         lines |-> r.lines]

-----------------------------------------------------------------------------
(* Transmit pacer: tx_timer_task and tx_really_really_slow *)

\* lines 75-79: the entry's delay in milliseconds, 0.1 s unless it is a tuple
DelayOf(arr_or_bytes) ==
    IF "t" \in DOMAIN arr_or_bytes THEN arr_or_bytes.t ELSE 100

\* lines 69-85, from the head of `while True` to the next await.  With an
\* empty queue that is sleep(0.5); otherwise the head entry is popped and
\* tx_really_really_slow writes its first byte before its first sleep(0.01)
\* (an empty entry goes straight to sleep(t)).
TxLoopHead(self, task) ==
    IF self.txqueue = <<>> THEN [self |-> self, task |-> [task EXCEPT !.pc = "loop"]]
    ELSE LET arr_or_bytes == Head(self.txqueue)
             b == arr_or_bytes.b
             popped == [self EXCEPT !.txqueue = Tail(@)]
         IN  IF Len(b) = 0
             THEN [self |-> popped,
                   task |-> [pc |-> "loop", b |-> b, i |-> 0, t |-> DelayOf(arr_or_bytes)]]
             ELSE [self |-> Write(popped, <<b[1]>>),
                   task |-> [pc |-> "slow", b |-> b, i |-> 1, t |-> DelayOf(arr_or_bytes)]]

\* lines 64-66 and 86, resumed after a sleep(0.01): the next byte, or, after
\* the last one, sleep(t), which resumes at the head of the loop
TxNextByte(self, task) ==
    IF task.i < Len(task.b)
    THEN [self |-> Write(self, <<task.b[task.i + 1]>>),
          task |-> [task EXCEPT !.i = @ + 1]]
    ELSE [self |-> self, task |-> [task EXCEPT !.pc = "loop"]]

-----------------------------------------------------------------------------
(* Control protocol dispatcher: handle_ws and the four handlers *)

\* JSON values are tagged with their Python type
JNone == [ty |-> "NoneType"]
JStr(s) == [ty |-> "str", v |-> s]
JInt(n) == [ty |-> "int", v |-> n]
JFloat(n) == [ty |-> "float", v |-> n]
JList(n) == [ty |-> "list", v |-> n]

\* payload.get(key, None); a payload is a function from its keys
Get(payload, key) == IF key \in DOMAIN payload THEN payload[key] ELSE JNone

IsStr(x, s) == x.ty = "str" /\ x.v = s

\* bool(x) for the JSON values above (a list is given by its length)
Truthy(x) ==
    CASE x.ty = "NoneType" -> FALSE
      [] x.ty = "str" -> x.v # ""
      [] x.ty = "list" -> x.v # 0
      [] OTHER -> x.v # 0

ws_cmd_handlers == {"start", "stop", "status", "fetch"}

\* What a handler gives back: ret is [kind |-> "None"], [kind |-> "tuple",
\* code, msg] or [kind |-> "dict", d]; raised is TRUE when it raises.
handle_start(self, payload) ==
    LET r == start(self)
    IN  IF r.raised THEN [raised |-> TRUE, self |-> self, ret |-> [kind |-> "None"]]
        ELSE [raised |-> FALSE, self |-> r.self,
              ret |-> [kind |-> "tuple", code |-> 0, msg |-> "Yeah!"]]

handle_stop(self, payload) ==
    [raised |-> FALSE, self |-> stop(self), ret |-> [kind |-> "None"]]

handle_status(self, payload) ==
    [raised |-> FALSE, self |-> self,
     ret |-> [kind |-> "dict",
              d |-> [result |-> 0,
                     msg |-> "Here's your status!",
                     good_rx |-> self.good_rx,
                     bad_rx |-> self.bad_rx,
                     expect_data |-> self.expect_data,
                     drop_px |-> self.drop_rx,
                     nsamples |-> Len(self.rx_data_buf)]]]

\* line 217 without `nsamples < 0`
BadNsamples_NoNegative(self, nsamples) ==
    nsamples.ty # "int" \/ nsamples.v > Len(self.rx_data_buf)

\* line 217
BadNsamples(self, nsamples) ==
    nsamples.ty # "int" \/ nsamples.v < 0 \/ nsamples.v > Len(self.rx_data_buf)

\* The end of the Python slice s[0:n]: a negative n counts from the end, and
\* the slice is clipped to the sequence.
SliceEnd(s, n) ==
    LET e == IF n < 0 THEN Len(s) + n ELSE n
    IN  IF e < 0 THEN 0 ELSE IF e > Len(s) THEN Len(s) ELSE e

\* the fetch taking the newest records
TakeSamples_Newest(self, n) ==
    LET e == SliceEnd(self.rx_data_buf, n)
        k == Len(self.rx_data_buf) - e
    IN  [data |-> SubSeq(self.rx_data_buf, k + 1, Len(self.rx_data_buf)),
         self |-> [self EXCEPT !.rx_data_buf = SubSeq(@, 1, k)]]

\* the fetch leaving the records it returns in the buffer
TakeSamples_Peek(self, n) ==
    [data |-> SubSeq(self.rx_data_buf, 1, SliceEnd(self.rx_data_buf, n)),
     self |-> self]

\* lines 219-224: data is rx_data_buf[0:nsamples], which is then deleted
TakeSamples(self, n) ==
    LET e == SliceEnd(self.rx_data_buf, n)
    IN  [data |-> SubSeq(self.rx_data_buf, 1, e),
         self |-> [self EXCEPT !.rx_data_buf = SubSeq(@, e + 1, Len(@))]]

handle_fetch(self, payload) ==
    LET nsamples == Get(payload, "nsamples")
    IN  IF BadNsamples(self, nsamples)
        THEN [raised |-> FALSE, self |-> self,
              ret |-> [kind |-> "tuple", code |-> 666,
                       msg |-> "Not the correct number of samples!"]]
        ELSE LET tk == TakeSamples(self, nsamples.v)
             IN  [raised |-> FALSE, self |-> tk.self,
                  ret |-> [kind |-> "dict",
                           d |-> [result |-> 0, msg |-> "Here's your data!",
                                  data |-> tk.data]]]

\* line 266
Dispatch(cmd, self, payload) ==
    CASE cmd = "start" -> handle_start(self, payload)
      [] cmd = "stop" -> handle_stop(self, payload)
      [] cmd = "status" -> handle_status(self, payload)
      [] cmd = "fetch" -> handle_fetch(self, payload)

\* lines 267-274: the returned value made a dict, with the command appended
Normalize(ret, cmd) ==
    LET d == CASE ret.kind = "None" -> [result |-> 0, msg |-> "Maybe ok?"]
               [] ret.kind = "tuple" -> [result |-> ret.code, msg |-> ret.msg]
               [] ret.kind = "dict" -> ret.d
    IN  d @@ [cmd |-> cmd]

\* One turn of handle_ws' `async for msg in ws` for a message msg:
\* [self, open, did], did being what was done to the websocket (ws_last's
\* tail), <<>> when nothing was.
\*   msg.type TEXT carries data = [json |-> "invalid"] (json.loads raises),
\*   [json |-> "other"] (not a dict) or [json |-> "dict", d |-> payload].
handle_ws(self, msg) ==
    IF msg.type = "ERROR" \/ msg.type = "BINARY"
    THEN [self |-> self, open |-> TRUE, did |-> <<>>]
    ELSE IF msg.data.json # "dict"
    THEN [self |-> self, open |-> FALSE, did |-> <<"close", "PROTOCOL_ERROR">>]
    ELSE LET payload == msg.data.d
             cmd == Get(payload, "cmd")
         IN  IF IsStr(cmd, "close")
             THEN [self |-> self, open |-> FALSE, did |-> <<"close", "OK">>]
             ELSE IF ~Truthy(cmd)
             THEN [self |-> self, open |-> FALSE, did |-> <<"close", "PROTOCOL_ERROR">>]
             ELSE IF cmd.ty = "list"      \* `cmd not in dict`: TypeError, unhashable
             THEN [self |-> self, open |-> FALSE, did |-> <<"exception">>]
             ELSE IF cmd.ty # "str" \/ cmd.v \notin ws_cmd_handlers
             THEN [self |-> self, open |-> FALSE, did |-> <<"close", "PROTOCOL_ERROR">>]
             ELSE LET h == Dispatch(cmd.v, self, payload)
                  IN  IF h.raised   \* nothing catches it: the handler task ends
                      THEN [self |-> h.self, open |-> FALSE, did |-> <<"exception">>]
                      ELSE [self |-> h.self, open |-> TRUE,
                            did |-> <<"send", Normalize(h.ret, cmd.v)>>]

-----------------------------------------------------------------------------
(* What the environment offers *)

NumClients == 1
Clients == 1..NumClients

\* Chunks the serial port delivers: whole lines (records, echoes, chatter),
\* with and without the line feed the firmware adds, and one record in two
\* pieces.
Rec1 == <<49, 32, 73, 32, 50, 32, 82, 32, 51, 13>>                   \* '1 I 2 R 3\r'
Rec2 == <<50, 32, 82, 32, 52, 32, 72, 32, 53, 13, 10>>               \* '2 R 4 H 5\r\n'
BadStatus == <<55, 32, 88, 32, 49, 32, 82, 32, 49, 13>>              \* '7 X 1 R 1\r'
Rec3Head == <<51, 32, 72, 32, 54, 32>>                               \* '3 H 6 '
Rec3Tail == <<73, 32, 55, 13>>                                       \* 'I 7\r'
StartLine == Start_Measurement \o <<CR>>
StopLine == <<LF>> \o Stop_Measurement \o <<CR>>

Chunks == {Rec1, Rec2, BadStatus, StartLine, StopLine}

Text(payload) == [type |-> "TEXT", data |-> [json |-> "dict", d |-> payload]]
CmdMsg(cmd) == Text("cmd" :> JStr(cmd))
FetchMsg(nsamples) == Text(("cmd" :> JStr("fetch")) @@ ("nsamples" :> nsamples))

\* Frames a client may send when the buffer holds size records: the four
\* commands, close, and fetch with every kind of nsamples
Messages(size) ==
    {CmdMsg("start"), CmdMsg("stop"), CmdMsg("status"), CmdMsg("close"),
     CmdMsg("fetch"), FetchMsg(JStr("1")), FetchMsg(JFloat(1))}
    \cup {FetchMsg(JInt(n)) : n \in (0 - 1)..(size + 1)}

\* Frames offered while the script goes out: start, status, close and the
\* frames handle_ws refuses or ignores
BootMessages ==
    {CmdMsg("start"), CmdMsg("status"), CmdMsg("close"), CmdMsg("reset"),
     Text(<<>>), Text("cmd" :> JList(1)), Text("cmd" :> JInt(0)),
     [type |-> "TEXT", data |-> [json |-> "invalid"]],
     [type |-> "TEXT", data |-> [json |-> "other"]],
     [type |-> "BINARY"]}

BootChunks == {BadStatus, StartLine}

\* Command sequences offered to enqueue_command
CommandSets ==
    {<<>>, <<Cmd(<<116, 10>>)>>, <<CmdT(<<118, 10>>, 500), Cmd(<<>>)>>}

\* hist: fed and lines are the bytes given to data_received and the logical
\* lines it framed, cut whether the accumulator was ever truncated; phase and
\* recs follow the start-to-fetch scenario; n counts the numbered records
\* sent and events the other inputs of SpecCap, run holds the records appended since the buffer was last empty,
\* clean whether no fetch has cut into them, base is drop_rx at run's start;
\* lost whether connection_lost has been called; fields are the fields the
\* line given to the parser was made of; in SpecAcct recs holds every record
\* a fetch has returned and cleared counts the records start echoes removed.
NoHist ==
    [fed |-> <<>>, lines |-> <<>>, cut |-> FALSE,
     phase |-> 0, recs |-> <<>>,
     n |-> 0, events |-> 0, run |-> <<>>, clean |-> TRUE, base |-> 0,
     lost |-> FALSE, fields |-> <<>>, cleared |-> 0]
NoTask == [pc |-> "loop", b |-> <<>>, i |-> 0, t |-> 0]

-----------------------------------------------------------------------------
(* Actions *)

\* the protocol's data_received callback with one chunk
DataReceivedCore(data) ==
    /\ budget > 0
    /\ ivc102_proto' = data_received(ivc102_proto, data).self
    /\ budget' = budget - 1
    /\ UNCHANGED <<tx_task, ws, ws_last, exc>>

\* a client opens /ws: handle_ws up to its first wait for a message
WsConnect(c) ==
    /\ ~ws[c]
    /\ ws' = [ws EXCEPT ![c] = TRUE]
    /\ UNCHANGED <<ivc102_proto, tx_task, ws_last, exc, budget, hist>>

\* a client goes away: the `async for` ends
WsPeerClose(c) ==
    /\ ws[c]
    /\ ws' = [ws EXCEPT ![c] = FALSE]
    /\ UNCHANGED <<ivc102_proto, tx_task, ws_last, exc, budget, hist>>

\* handle_ws takes one message of client c
WsMessageCore(c, msg) ==
    /\ ws[c]
    /\ budget > 0
    /\ LET r == handle_ws(ivc102_proto, msg)
       IN  /\ ivc102_proto' = r.self
           /\ ws' = [ws EXCEPT ![c] = r.open]
           /\ ws_last' = IF r.did = <<>> THEN ws_last ELSE <<c>> \o r.did
    /\ budget' = budget - 1
    /\ UNCHANGED <<tx_task, exc>>

\* a direct call of enqueue_command
EnqueueCommandCore(commands) ==
    /\ budget > 0
    /\ LET r == enqueue_command(ivc102_proto, commands)
       IN  /\ ivc102_proto' = r.self
           /\ exc' = IF r.raised THEN "RuntimeError" ELSE "returned"
    /\ budget' = budget - 1
    /\ UNCHANGED <<tx_task, ws, ws_last>>

TxTimerTask ==
    /\ tx_task.pc = "loop"
    /\ LET r == TxLoopHead(ivc102_proto, tx_task)
       IN  ivc102_proto' = r.self /\ tx_task' = r.task
    /\ UNCHANGED <<ws, ws_last, exc, budget, hist>>

TxReallyReallySlow ==
    /\ tx_task.pc = "slow"
    /\ LET r == TxNextByte(ivc102_proto, tx_task)
       IN  ivc102_proto' = r.self /\ tx_task' = r.task
    /\ UNCHANGED <<ws, ws_last, exc, budget, hist>>

Connect == \E c \in Clients : WsConnect(c)

PeerClose == \E c \in Clients : WsPeerClose(c)

-----------------------------------------------------------------------------
(* Spec: from the serial connection being made, while the script goes out. *)
(* The inputs offered are those that write nothing to the transport while  *)
(* the queue is not empty.                                                 *)

MaxInputsBoot == 2

Init ==
    /\ ivc102_proto = connection_made
    /\ tx_task = NoTask
    /\ ws = [c \in Clients |-> FALSE]
    /\ ws_last = <<>>
    /\ exc = "none"
    /\ budget = MaxInputsBoot
    /\ hist = NoHist

DataReceivedBoot == \E data \in BootChunks : DataReceivedCore(data) /\ UNCHANGED hist

WsMessageBoot ==
    \E c \in Clients : \E msg \in BootMessages : WsMessageCore(c, msg) /\ UNCHANGED hist

EnqueueCommandBoot ==
    \E commands \in CommandSets : EnqueueCommandCore(commands) /\ UNCHANGED hist

Next ==
    \/ TxTimerTask
    \/ TxReallyReallySlow
    \/ DataReceivedBoot
    \/ Connect
    \/ PeerClose
    \/ WsMessageBoot
    \/ EnqueueCommandBoot

Spec == Init /\ [][Next]_vars

-----------------------------------------------------------------------------
(* SpecIdle: from the state Spec is in when the script has gone out and    *)
(* nothing else has happened (IdleReached), with every input offered       *)

MaxInputs == 3

RECURSIVE AllBytes(_)
AllBytes(q) == IF q = <<>> THEN <<>> ELSE Head(q).b \o AllBytes(Tail(q))

IdleProto == [connection_made EXCEPT !.txqueue = <<>>, !.transport = AllBytes(InitCommands)]

IdleTask ==
    LET last == InitCommands[Len(InitCommands)]
    IN  [pc |-> "loop", b |-> last.b, i |-> Len(last.b), t |-> DelayOf(last)]

InitIdle ==
    /\ ivc102_proto = IdleProto
    /\ tx_task = IdleTask
    /\ ws = [c \in Clients |-> FALSE]
    /\ ws_last = <<>>
    /\ exc = "none"
    /\ budget = MaxInputs
    /\ hist = NoHist

DataReceived == \E data \in Chunks : DataReceivedCore(data) /\ UNCHANGED hist

WsMessage ==
    \E c \in Clients : \E msg \in Messages(Len(ivc102_proto.rx_data_buf)) :
        WsMessageCore(c, msg) /\ UNCHANGED hist

EnqueueCommand == \E commands \in CommandSets : EnqueueCommandCore(commands) /\ UNCHANGED hist

NextIdle ==
    \/ TxTimerTask
    \/ TxReallyReallySlow
    \/ DataReceived
    \/ Connect
    \/ PeerClose
    \/ WsMessage
    \/ EnqueueCommand

SpecIdle == InitIdle /\ [][NextIdle]_vars

\* Spec reaches the state SpecIdle starts in
IdleReached == ivc102_proto = IdleProto /\ tx_task = IdleTask

-----------------------------------------------------------------------------
(* SpecE2E: one client takes an idle session through start, the echo,      *)
(* three records, status, fetch and status.  Before the start the device   *)
(* may have sent records and a stop echo, which leave records behind.      *)

MaxResidue == 3

\* what the device sends for a record, and the record it stands for
DataLines ==
    {[bytes |-> Rec1, rec |-> <<1, 2, 2, 0, 3>>],
     [bytes |-> Rec2, rec |-> <<2, 0, 4, 1, 5>>],
     [bytes |-> <<LF>> \o Rec3Head \o Rec3Tail, rec |-> <<3, 1, 6, 2, 7>>]}

\* the echo as the firmware may print it
EchoLines ==
    {StartLine,
     <<LF>> \o StartLine,
     <<62, 32>> \o Start_Measurement \o <<32, 33, CR, LF>>}    \* '> Start Measurement !\r\n'

InitE2E ==
    /\ ivc102_proto = IdleProto
    /\ tx_task = IdleTask
    /\ ws = [c \in Clients |-> FALSE]
    /\ ws_last = <<>>
    /\ exc = "none"
    /\ budget = MaxResidue + 8
    /\ hist = NoHist

E2EResidue ==
    /\ hist.phase = 0
    /\ budget > 8
    /\ \E data \in {Rec1, Rec2, StopLine} : DataReceivedCore(data)
    /\ UNCHANGED hist

E2EConnect == hist.phase = 0 /\ WsConnect(1)

E2EStart ==
    /\ hist.phase = 0
    /\ ivc102_proto.txqueue = <<>>
    /\ ~ivc102_proto.sent_start /\ ~ivc102_proto.expect_data /\ ~ivc102_proto.sent_stop
    /\ WsMessageCore(1, CmdMsg("start"))
    /\ hist' = [hist EXCEPT !.phase = 1]

E2EEcho ==
    /\ hist.phase = 1
    /\ \E data \in EchoLines : DataReceivedCore(data)
    /\ hist' = [hist EXCEPT !.phase = 2]

E2EData ==
    /\ hist.phase \in 2..4
    /\ \E line \in DataLines :
          /\ DataReceivedCore(line.bytes)
          /\ hist' = [hist EXCEPT !.phase = @ + 1, !.recs = Append(@, line.rec)]

E2EStatus ==
    /\ hist.phase \in {5, 7}
    /\ WsMessageCore(1, CmdMsg("status"))
    /\ hist' = [hist EXCEPT !.phase = @ + 1]

E2EFetch ==
    /\ hist.phase = 6
    /\ WsMessageCore(1, FetchMsg(JInt(3)))
    /\ hist' = [hist EXCEPT !.phase = 7]

NextE2E ==
    \/ TxTimerTask
    \/ E2EResidue
    \/ E2EConnect
    \/ E2EStart
    \/ E2EEcho
    \/ E2EData
    \/ E2EStatus
    \/ E2EFetch

SpecE2E == InitE2E /\ [][NextE2E]_vars

-----------------------------------------------------------------------------
(* SpecCap: the device sends more records than the sample buffer holds.    *)
(* Starts, echoes and fetches come before the stream of records or after   *)
(* the buffer has filled.                                                  *)

MaxOverflow == 2
MaxWarmup == 1
MaxCapEvents == 2

\* str(n) for n >= 0
RECURSIVE Decimal(_)
Decimal(n) == IF n < 10 THEN <<48 + n>> ELSE Decimal(n \div 10) \o <<48 + (n % 10)>>

\* the n-th record the device sends: 'n I 2 R 3\r'
NumberedRecord(n) == Decimal(n) \o <<32, 73, 32, 50, 32, 82, 32, 51, CR>>

InitCap ==
    /\ ivc102_proto = IdleProto
    /\ tx_task = IdleTask
    /\ ws = [c \in Clients |-> FALSE]
    /\ ws_last = <<>>
    /\ exc = "none"
    /\ budget = RX_DATA_BUF_MAX + MaxOverflow + MaxCapEvents
    /\ hist = NoHist

\* no record is in flight between the first and the last of a full buffer
Quiet ==
    /\ hist.events < MaxCapEvents
    /\ hist.n <= MaxWarmup \/ Len(ivc102_proto.rx_data_buf) = RX_DATA_BUF_MAX

CapRecord ==
    /\ hist.n < RX_DATA_BUF_MAX + MaxOverflow
    /\ DataReceivedCore(NumberedRecord(hist.n))
    /\ hist' = [hist EXCEPT !.n = @ + 1, !.run = Append(@, <<hist.n, 2, 2, 0, 3>>)]

CapConnect == Quiet /\ WsConnect(1)

CapStart ==
    /\ Quiet
    /\ WsMessageCore(1, CmdMsg("start"))
    /\ hist' = [hist EXCEPT !.events = @ + 1]

\* the echo empties the buffer when a start is pending
CapEcho ==
    /\ Quiet
    /\ DataReceivedCore(StartLine)
    /\ hist' = IF ivc102_proto.sent_start
               THEN [hist EXCEPT !.events = @ + 1, !.run = <<>>, !.clean = TRUE,
                                 !.base = ivc102_proto.drop_rx]
               ELSE [hist EXCEPT !.events = @ + 1]

CapFetch ==
    /\ Quiet
    /\ \E n \in {1, Len(ivc102_proto.rx_data_buf)} :
          /\ n >= 1
          /\ WsMessageCore(1, FetchMsg(JInt(n)))
          /\ hist' = IF n = Len(ivc102_proto.rx_data_buf)
                     THEN [hist EXCEPT !.events = @ + 1, !.run = <<>>, !.clean = TRUE,
                                       !.base = ivc102_proto.drop_rx]
                     ELSE [hist EXCEPT !.events = @ + 1, !.clean = FALSE]

NextCap ==
    \/ TxTimerTask
    \/ CapRecord
    \/ CapConnect
    \/ CapStart
    \/ CapEcho
    \/ CapFetch

SpecCap == InitCap /\ [][NextCap]_vars

-----------------------------------------------------------------------------
(* SpecFramer: a byte stream reaches data_received in chunks               *)

MaxFeeds == 3

\* every chunk of one or two bytes over \r, \n and 'a', a chunk of 'a's one
\* byte longer than the accumulator's cap and one a byte shorter than it
ShortChunks ==
    LET B == {CR, LF, 97}
    IN  {<<x>> : x \in B} \cup {<<x, y>> : x, y \in B}

LongChunk == [k \in 1..(RECVBUF_MAX + 1) |-> 97]

NearChunk == [k \in 1..(RECVBUF_MAX - 1) |-> 97]

InitFramer ==
    /\ ivc102_proto = IdleProto
    /\ tx_task = IdleTask
    /\ ws = [c \in Clients |-> FALSE]
    /\ ws_last = <<>>
    /\ exc = "none"
    /\ budget = MaxFeeds
    /\ hist = NoHist

\* the accumulator as the while loop leaves it, before lines 186-188
Residue(self, data) == RxLoop([self EXCEPT !.recvbuf = @ \o data], <<>>).self.recvbuf

Feed ==
    \E data \in ShortChunks \cup {LongChunk, NearChunk} :
        /\ DataReceivedCore(data)
        /\ hist' = [hist EXCEPT
                      !.fed = @ \o data,
                      !.lines = @ \o data_received(ivc102_proto, data).lines,
                      !.cut = @ \/ Len(Residue(ivc102_proto, data)) > RECVBUF_MAX]

NextFramer == Feed

SpecFramer == InitFramer /\ [][NextFramer]_vars

\* the lines of the whole stream given to a new connection in one call
FrameWhole(stream) == data_received(connection_made, stream).lines

-----------------------------------------------------------------------------
(* SpecLost: from the serial connection being made, the serial port may go *)
(* away at any moment while the pacer sends the script and commands are    *)
(* enqueued.  transport is the sequence of bytes given to transport.write. *)

MaxInputsLost == 1

InitLost ==
    /\ ivc102_proto = connection_made
    /\ tx_task = NoTask
    /\ ws = [c \in Clients |-> FALSE]
    /\ ws_last = <<>>
    /\ exc = "none"
    /\ budget = MaxInputsLost
    /\ hist = NoHist

\* lines 190-191: the callback logs a warning; no field of the protocol
\* changes and the task made by create_task (line 109) is left running
connection_lost(self) == self

ConnectionLost ==
    /\ ~hist.lost
    /\ ivc102_proto' = connection_lost(ivc102_proto)
    /\ hist' = [hist EXCEPT !.lost = TRUE]
    /\ UNCHANGED <<tx_task, ws, ws_last, exc, budget>>

NextLost ==
    \/ TxTimerTask
    \/ TxReallyReallySlow
    \/ ConnectionLost
    \/ EnqueueCommand

SpecLost == InitLost /\ [][NextLost]_vars

-----------------------------------------------------------------------------
(* SpecParser: a measuring session with an empty buffer is given one line  *)
(* made of up to MaxFields fields, each a number or a status letter,       *)
(* separated by single spaces.                                             *)

MaxFields == 6

ParserTokens == {<<49>>, <<73>>, <<82>>, <<88>>}                 \* '1', 'I', 'R', 'X'

FieldSeqs == UNION {[1..n -> ParserTokens] : n \in 1..MaxFields}

\* b' '.join(fields)
RECURSIVE Join(_)
Join(fields) ==
    IF Len(fields) = 1 THEN fields[1]
    ELSE fields[1] \o <<32>> \o Join(Tail(fields))

\* the idle session after a client's start and the device's echo
MeasuringProto ==
    [IdleProto EXCEPT !.transport = @ \o <<CTRL_C>>, !.expect_data = TRUE]

InitParser ==
    /\ ivc102_proto = MeasuringProto
    /\ tx_task = IdleTask
    /\ ws = [c \in Clients |-> FALSE]
    /\ ws_last = <<>>
    /\ exc = "none"
    /\ budget = 1
    /\ \E fields \in FieldSeqs :
          hist = [NoHist EXCEPT !.fields = fields, !.fed = Join(fields) \o <<CR>>]

ParseLine ==
    /\ hist.phase = 0
    /\ DataReceivedCore(hist.fed)
    /\ hist' = [hist EXCEPT !.phase = 1]

NextParser == ParseLine

SpecParser == InitParser /\ [][NextParser]_vars

-----------------------------------------------------------------------------
(* SpecAcct: several clients start and fetch while the device sends        *)
(* numbered records, more than the sample buffer holds, and start echoes.  *)
(* As in SpecCap the clients and the echoes act before the stream of       *)
(* records or after the buffer has filled.                                 *)

NumAcctClients == 2
MaxAcctEvents == 3

AcctClients == 1..NumAcctClients

InitAcct ==
    /\ ivc102_proto = IdleProto
    /\ tx_task = IdleTask
    /\ ws = [c \in AcctClients |-> TRUE]
    /\ ws_last = <<>>
    /\ exc = "none"
    /\ budget = RX_DATA_BUF_MAX + MaxOverflow + MaxAcctEvents
    /\ hist = NoHist

AcctQuiet ==
    /\ hist.events < MaxAcctEvents
    /\ hist.n <= MaxWarmup \/ Len(ivc102_proto.rx_data_buf) = RX_DATA_BUF_MAX

AcctRecord ==
    /\ hist.n < RX_DATA_BUF_MAX + MaxOverflow
    /\ DataReceivedCore(NumberedRecord(hist.n))
    /\ hist' = [hist EXCEPT !.n = @ + 1]

AcctStart ==
    /\ AcctQuiet
    /\ \E c \in AcctClients : WsMessageCore(c, CmdMsg("start"))
    /\ hist' = [hist EXCEPT !.events = @ + 1]

\* the records gone from the buffer in a step that appends none are those
\* the echo cleared
AcctEcho ==
    /\ AcctQuiet
    /\ DataReceivedCore(StartLine)
    /\ hist' = [hist EXCEPT
                  !.events = @ + 1,
                  !.cleared = @ + Len(ivc102_proto.rx_data_buf)
                                - Len(data_received(ivc102_proto, StartLine).self.rx_data_buf)]

\* the records of the response frame, none when it carries no data
FrameData(did) ==
    IF did[1] = "send" /\ "data" \in DOMAIN did[2] THEN did[2].data ELSE <<>>

AcctFetch ==
    /\ AcctQuiet
    /\ \E c \in AcctClients :
       \E n \in {1, Len(ivc102_proto.rx_data_buf), Len(ivc102_proto.rx_data_buf) + 1} :
          /\ WsMessageCore(c, FetchMsg(JInt(n)))
          /\ hist' = [hist EXCEPT
                        !.events = @ + 1,
                        !.recs = @ \o FrameData(handle_ws(ivc102_proto, FetchMsg(JInt(n))).did)]

NextAcct ==
    \/ AcctRecord
    \/ AcctStart
    \/ AcctEcho
    \/ AcctFetch

SpecAcct == InitAcct /\ [][NextAcct]_vars

-----------------------------------------------------------------------------
(* Claims *)

Armed == ivc102_proto.sent_start
Measuring == ivc102_proto.expect_data
Idle ==
    /\ ivc102_proto.txqueue = <<>>
    /\ ~ivc102_proto.sent_start
    /\ ~ivc102_proto.expect_data
    /\ ~ivc102_proto.sent_stop

\* handle_ws answered client c with frame f in this step
Answered(c) == Len(ws_last') = 3 /\ ws_last'[1] = c /\ ws_last'[2] = "send"

\* C1: whenever sent_start or expect_data is true, enqueue_command raises and
\* leaves txqueue exactly as it was, for every command sequence offered.
C1_EnqueueRefused ==
    [][\A commands \in CommandSets :
         ((Armed \/ Measuring) /\ EnqueueCommandCore(commands))
            => (exc' = "RuntimeError" /\ ivc102_proto'.txqueue = ivc102_proto.txqueue)]_vars

\* an enqueue_command was refused while measuring
C1_Witness == exc = "RuntimeError" /\ Measuring /\ ~Armed

\* C2: a client `start` received while txqueue is not empty is answered with a
\* frame whose result is non-zero and whose cmd is `start`, the connection
\* stays open, and nothing of the session changes.
C2_StartWithPendingCommandsAnswered ==
    [][\A c \in Clients :
         (ivc102_proto.txqueue # <<>> /\ WsMessageCore(c, CmdMsg("start")))
            => /\ Answered(c)
               /\ ws_last'[3].result # 0
               /\ ws_last'[3].cmd = "start"
               /\ ws'[c]
               /\ ivc102_proto' = ivc102_proto]_vars

C4_ArmedImpliesQueueEmpty ==
    (Armed \/ Measuring) => ivc102_proto.txqueue = <<>>

\* measuring, after commands enqueued earlier have gone out
C4_Witness ==
    /\ Measuring
    /\ exc = "returned"
    /\ Len(ivc102_proto.transport) > Len(AllBytes(InitCommands)) + 1

\* C5: a start awaiting its echo and a stop awaiting its echo are never both
\* pending.
C5_OneTransitionInFlight == ~(ivc102_proto.sent_start /\ ivc102_proto.sent_stop)

IsFetch(msg) ==
    /\ msg.type = "TEXT" /\ msg.data.json = "dict"
    /\ "cmd" \in DOMAIN msg.data.d /\ msg.data.d["cmd"] = JStr("fetch")

\* nsamples is an integer from 0 to the buffer's size
GoodFetch(msg) ==
    /\ IsFetch(msg)
    /\ "nsamples" \in DOMAIN msg.data.d
    /\ msg.data.d["nsamples"].ty = "int"
    /\ msg.data.d["nsamples"].v \in 0..Len(ivc102_proto.rx_data_buf)

Counters(self) == <<self.good_rx, self.bad_rx, self.drop_rx>>

\* C7: a fetch whose nsamples is absent, not an integer, negative or greater
\* than the buffer's size is answered with result 666 and no data, leaves the
\* buffer and the counters alone, and leaves the connection open.
C7_BadFetch ==
    [][\A c \in Clients : \A msg \in Messages(Len(ivc102_proto.rx_data_buf)) :
         (IsFetch(msg) /\ ~GoodFetch(msg) /\ WsMessageCore(c, msg))
            => /\ Answered(c)
               /\ ws_last'[3].result = 666
               /\ ws_last'[3].cmd = "fetch"
               /\ "data" \notin DOMAIN ws_last'[3]
               /\ ivc102_proto'.rx_data_buf = ivc102_proto.rx_data_buf
               /\ Counters(ivc102_proto') = Counters(ivc102_proto)
               /\ ws'[c]]_vars

\* a fetch was answered 666 with records in the buffer
C7_Witness ==
    /\ Len(ws_last) = 3 /\ ws_last[2] = "send" /\ ws_last[3].result = 666
    /\ Len(ivc102_proto.rx_data_buf) = 2

\* C8: a fetch with 0 <= nsamples <= size is answered with exactly the
\* nsamples oldest records in order, which leave the buffer in the same step;
\* the others stay, in order.
C8_FetchTakesOldest ==
    [][\A c \in Clients : \A msg \in Messages(Len(ivc102_proto.rx_data_buf)) :
         (GoodFetch(msg) /\ WsMessageCore(c, msg))
            => LET n == msg.data.d["nsamples"].v
                   old == ivc102_proto.rx_data_buf
                   new == ivc102_proto'.rx_data_buf
               IN  /\ Answered(c)
                   /\ ws_last'[3].result = 0
                   /\ Len(ws_last'[3].data) = n
                   /\ \A k \in 1..n : ws_last'[3].data[k] = old[k]
                   /\ Len(new) = Len(old) - n
                   /\ \A k \in 1..Len(new) : new[k] = old[n + k]]_vars

\* the older of two records was fetched and the newer one stayed
C8_Witness ==
    /\ Len(ws_last) = 3 /\ ws_last[2] = "send" /\ ws_last[3].cmd = "fetch"
    /\ ws_last[3].result = 0
    /\ ws_last[3].data = <<<<1, 2, 2, 0, 3>>>>
    /\ ivc102_proto.rx_data_buf = <<<<2, 0, 4, 1, 5>>>>

\* the last frame sent, when the last thing done to a websocket was a send
LastFrame == IF Len(ws_last) = 3 /\ ws_last[2] = "send" THEN ws_last[3] ELSE [cmd |-> ""]

\* C6: from an idle session with an empty queue and one client: after start,
\* the Start Measurement echo and three valid data lines, status reports
\* nsamples 3, fetch with nsamples 3 returns those three records in arrival
\* order, and the next status reports nsamples 0.
C6_EndToEnd ==
    /\ hist.phase = 6 =>
          LastFrame.cmd = "status" /\ LastFrame.result = 0 /\ LastFrame.nsamples = 3
    /\ hist.phase = 7 =>
          LastFrame.cmd = "fetch" /\ LastFrame.result = 0 /\ LastFrame.data = hist.recs
    /\ hist.phase = 8 =>
          LastFrame.cmd = "status" /\ LastFrame.result = 0 /\ LastFrame.nsamples = 0

\* the scenario ran to its end with records left over from before the start
C6_Witness == hist.phase = 8 /\ ivc102_proto.good_rx = 5 /\ Len(hist.recs) = 3

\* C9: the sample buffer never holds more than the cap; and once more than
\* the cap records were appended to an empty buffer with no fetch or clear in
\* between, it holds the cap newest of them in arrival order and drop_rx has
\* grown by their number minus the cap.
C9_BufferCap ==
    /\ Len(ivc102_proto.rx_data_buf) <= RX_DATA_BUF_MAX
    /\ (hist.clean /\ Len(hist.run) > RX_DATA_BUF_MAX) =>
          /\ ivc102_proto.rx_data_buf =
                SubSeq(hist.run, Len(hist.run) - RX_DATA_BUF_MAX + 1, Len(hist.run))
          /\ ivc102_proto.drop_rx - hist.base = Len(hist.run) - RX_DATA_BUF_MAX

\* two records more than the cap were appended in one run
C9_Witness ==
    /\ hist.clean /\ Len(hist.run) = RX_DATA_BUF_MAX + 2
    /\ ivc102_proto.drop_rx - hist.base = 2

\* C10 as claimed: however the stream is cut into chunks, the lines framed
\* are those of the whole stream given in one call.
C10_ChunkIndependence == hist.lines = FrameWhole(hist.fed)

\* C10 as amended: the same, for the cuts that never leave more than
\* RECVBUF_MAX unterminated bytes in the accumulator at the end of a call.
C10_ChunkIndependenceUncut == ~hist.cut => hist.lines = FrameWhole(hist.fed)

\* a line that arrived in more than one chunk was framed
C10_Witness ==
    /\ ~hist.cut
    /\ \E k \in 1..Len(hist.lines) : Len(hist.lines[k]) = 3

Stopping == ivc102_proto.sent_stop

\* this step spends one input and leaves the pacer, the websockets and the
\* outcome of enqueue_command alone, as a call of data_received does
DataStep == budget' = budget - 1 /\ UNCHANGED <<tx_task, ws, ws_last, exc>>

\* the lines data_received would frame from data in the current state
LinesOf(data) == data_received(ivc102_proto, data).lines

\* data makes exactly one logical line, and it parses as a record
OneValidLine(data) ==
    Len(LinesOf(data)) = 1 /\ ~try_parse_line(LinesOf(data)[1]).raised

\* C11: a valid data line processed while expect_data, sent_start and
\* sent_stop are all false writes the byte 0x04 to the transport and sets
\* sent_stop.
C11_AutomaticStop ==
    [][\A data \in Chunks :
         (~Armed /\ ~Measuring /\ ~Stopping /\ DataStep
            /\ DataReceivedCore(data) /\ OneValidLine(data))
            => /\ ivc102_proto'.transport = ivc102_proto.transport \o <<CTRL_D>>
               /\ ivc102_proto'.sent_stop]_vars

\* a record arrived in the idle session and no client has sent anything
C11_Witness ==
    /\ Stopping /\ ~Armed /\ ~Measuring
    /\ ws_last = <<>>
    /\ ivc102_proto.good_rx = 1
    /\ ivc102_proto.transport = AllBytes(InitCommands) \o <<CTRL_D>>

\* C12: after connection_lost no entry leaves txqueue and no byte is written
\* to the transport, whatever the queue held and wherever the pacer was.
C12_PacerCancelled ==
    [][hist.lost =>
         /\ Len(ivc102_proto'.txqueue) >= Len(ivc102_proto.txqueue)
         /\ ivc102_proto'.transport = ivc102_proto.transport]_vars

\* data makes exactly one logical line, and it contains the stop echo
OneStopLine(data) ==
    Len(LinesOf(data)) = 1 /\ Contains(Decode(LinesOf(data)[1]), Stop_Measurement)

\* C13: when a stop is pending and a line containing "Stop Measurement" is
\* processed, expect_data, sent_start and sent_stop are all false afterwards
\* and enqueue_command is accepted, in whatever state stop() was called.
C13_StopEchoGivesIdle ==
    [][\A data \in Chunks :
         (Stopping /\ DataStep /\ DataReceivedCore(data) /\ OneStopLine(data))
            => /\ ~ivc102_proto'.expect_data
               /\ ~ivc102_proto'.sent_start
               /\ ~ivc102_proto'.sent_stop
               /\ \A commands \in CommandSets :
                     ~enqueue_command(ivc102_proto', commands).raised]_vars

OneStartLine(data) ==
    Len(LinesOf(data)) = 1 /\ Contains(Decode(LinesOf(data)[1]), Start_Measurement)

\* C15: when sent_start is true and a line containing "Start Measurement" is
\* processed, expect_data is true, sent_start false and the sample buffer
\* empty right afterwards, and the clear resets no counter: good_rx and
\* drop_rx keep their values, bad_rx grows by one only if the session was
\* already measuring when the echo line failed to parse.
C15_StartEchoClearsBuffer ==
    [][\A data \in Chunks :
         (Armed /\ DataStep /\ DataReceivedCore(data) /\ OneStartLine(data))
            => /\ ivc102_proto'.expect_data
               /\ ~ivc102_proto'.sent_start
               /\ ivc102_proto'.rx_data_buf = <<>>
               /\ ivc102_proto'.good_rx = ivc102_proto.good_rx
               /\ ivc102_proto'.drop_rx = ivc102_proto.drop_rx
               /\ ivc102_proto'.bad_rx =
                     ivc102_proto.bad_rx + (IF Measuring THEN 1 ELSE 0)]_vars

\* the start echo has emptied a buffer that held a record counted in good_rx
C15_Witness ==
    /\ Measuring /\ ~Armed
    /\ ivc102_proto.good_rx = 1
    /\ ivc102_proto.rx_data_buf = <<>>
    /\ LastFrame.cmd = "start"

\* the pacer has written some but not all bytes of the entry it popped last
InsideEntry == tx_task.pc = "slow" /\ tx_task.i < Len(tx_task.b)

\* C16: while the pacer is between the first and the last byte of an entry,
\* no step writes the start byte 0x03 to the transport.
C16_NoStartInsideEntry ==
    [][InsideEntry =>
         ~(/\ Len(ivc102_proto'.transport) = Len(ivc102_proto.transport) + 1
           /\ ivc102_proto'.transport[Len(ivc102_proto'.transport)] = CTRL_C)]_vars

\* C17: while sent_stop is true, a processed line that does not contain
\* "Stop Measurement" writes nothing to the transport, whether it parses as a
\* record or not: no second 0x04 goes out before the stop echo.
C17_AutomaticStopLatched ==
    [][\A data \in Chunks :
         (Stopping /\ DataStep /\ DataReceivedCore(data)
            /\ Len(LinesOf(data)) = 1 /\ ~OneStopLine(data))
            => /\ ivc102_proto'.transport = ivc102_proto.transport
               /\ ivc102_proto'.sent_stop]_vars

\* two records arrived in the idle session and one 0x04 was written
C17_Witness ==
    /\ Stopping
    /\ ws_last = <<>>
    /\ ivc102_proto.good_rx = 2
    /\ ivc102_proto.transport = AllBytes(InitCommands) \o <<CTRL_D>>

\* this step is data_received framing one line that contains the start echo
StartLineProcessed ==
    DataStep /\ \E data \in Chunks : DataReceivedCore(data) /\ OneStartLine(data)

\* this step is data_received framing one line that contains the stop echo
StopLineProcessed ==
    DataStep /\ \E data \in Chunks : DataReceivedCore(data) /\ OneStopLine(data)

\* C18: sent_start goes from true to false only in a step that processes a
\* line containing "Start Measurement", sent_stop only in a step that
\* processes a line containing "Stop Measurement"; expect_data goes from
\* false to true only in a step that processes a start echo line while
\* sent_start is true; a start echo line processed while sent_start is false
\* leaves the three flags as they were.
C18_EchoWaitsHaveNoOtherExit ==
    [][/\ (Armed /\ ~ivc102_proto'.sent_start) => StartLineProcessed
       /\ (Stopping /\ ~ivc102_proto'.sent_stop) => StopLineProcessed
       /\ (~Measuring /\ ivc102_proto'.expect_data) => (Armed /\ StartLineProcessed)
       /\ (~Armed /\ StartLineProcessed) =>
             /\ ivc102_proto'.expect_data = ivc102_proto.expect_data
             /\ ivc102_proto'.sent_stop = ivc102_proto.sent_stop
             /\ ~ivc102_proto'.sent_start]_vars

\* a start is still pending after the device sent two records and no echo
C18_Witness ==
    /\ Armed /\ ~Measuring
    /\ budget = 0
    /\ ivc102_proto.good_rx = 2

\* C19: a line becomes a sample record only if it has exactly five fields
\* and its second and fourth fields are each one of R, H, I.
C19_ExactlyFiveFields ==
    (hist.phase = 1 /\ ivc102_proto.rx_data_buf # <<>>)
       => /\ Len(hist.fields) = 5
          /\ hist.fields[2] \in {<<82>>, <<72>>, <<73>>}
          /\ hist.fields[4] \in {<<82>>, <<72>>, <<73>>}

\* C20: good_rx is the buffer's size plus drop_rx plus the number of records
\* fetches have returned plus the number start echoes have cleared, and no
\* record has been returned by fetches more than once.
C20_RecordsConserved ==
    /\ ivc102_proto.good_rx =
          Len(ivc102_proto.rx_data_buf) + ivc102_proto.drop_rx
             + Len(hist.recs) + hist.cleared
    /\ Cardinality({hist.recs[k] : k \in 1..Len(hist.recs)}) = Len(hist.recs)

\* records were dropped by overflow, returned by a fetch and cleared by an
\* echo
C20_Witness ==
    /\ ivc102_proto.drop_rx > 0
    /\ Len(hist.recs) > 0
    /\ hist.cleared > 0

====
